---- MODULE Spec2Model ----
(***************************************************************************)
(* Model of the rolling writer of package rollingwriter (writer.go,        *)
(* manager.go): the check-and-rotate protocol of WriterCore, the four      *)
(* concurrency variants (Writer, LockedWriter, AsynchronousWriter,         *)
(* BufferWriter), the post-rotation background task with the retention     *)
(* queue, and the rotation manager.                                        *)
(*                                                                         *)
(* Granularity.  A step of a goroutine is one access to shared memory,     *)
(* one channel operation or one system call.  Reopen (rename, open, swap,  *)
(* go func) is one step: nothing but the swap of w.file is read by         *)
(* another goroutine of the writer.  os.File.Write is one step: package    *)
(* os serialises the writes on one handle (internal/poll fdmutex) and the  *)
(* file is opened O_APPEND.  A write on a closed handle fails and writes   *)
(* nothing.                                                                *)
(***************************************************************************)
EXTENDS Integers, Sequences, FiniteSets, TLC

\* ------------------------------------------------------------------ bounds
NProducers == 2      \* concurrent callers of Write
MaxWrites == 2       \* Write calls per producer
MaxLen == 1          \* longest payload, in bytes
MaxRot == 2          \* filenames the rotation trigger generates
AsyncRot == 1        \* ... under SpecAsync
BufferWrites == 2    \* Write calls per producer under SpecBuffer
BufferRot == 1       \* filenames generated under SpecBuffer
AllWrites == 1       \* Write calls per producer under Spec
AllRot == 1          \* filenames generated under Spec
MaxFaults == 1       \* injected I/O failures (rename, open, write)
BufferFaults == 0    \* ... under SpecBuffer
BufferSize == 2      \* length of a new pooled slice (BufferSize, scaled down)
QueueSize == 2       \* capacity of w.queue (QueueSize, scaled down)
BufferWriterThreshold == 1   \* cf.BufferWriterThreshold
RetWrites == 3       \* Write calls under SpecRetention
RetRot == 3          \* filenames generated under SpecRetention
MaxRemain == 2       \* largest cf.MaxRemain under SpecRetention
MaxDir == 2          \* most historical files found at construction
MgrWrites == 5       \* Write calls under SpecManager
MgrRot == 2          \* filenames generated under SpecManager
MaxCloses == 2       \* calls of manager.Close
ThresholdSize == 1   \* m.thresholdSize, in bytes
MaxSizeLen == 3      \* longest RollingVolumeSize string enumerated
MaxOps == 3          \* most options in an enumerated option list
SplitLen == 2        \* longest payload under SpecSplit
SplitWrites == 2     \* Write calls per producer under SpecSplit
SplitRot == 1        \* filenames generated under SpecSplit
OneWrites == 4       \* Write calls under SpecBufferOne
OneRot == 2          \* filenames generated under SpecBufferOne
OneLen == 2          \* longest payload under SpecBufferOne

Producers == 1..NProducers

\* The j-th byte of the n-th payload of producer p: every byte is distinct,
\* so "exactly once" and "contiguous" can be read off a file's content.
Byte(p, n, j) == p * 100 + n * 10 + j
Payload(p, n, len) == [j \in 1..len |-> Byte(p, n, j)]
ByteProd(x) == x \div 100
ByteCall(x) == (x % 100) \div 10

VARIABLES
    \* ---- Config
    cf,             \* the Config: NewDefaultConfig with the options applied
    ops,            \* the options given to NewWriter, and the index of the next
                    \* one to apply
    \* ---- WriterCore (type Writer)
    mode,           \* cf.WriterMode: "none", "lock", "async", "buffer"
    maxRemain,      \* cf.MaxRemain
    env,            \* what the environment does at most: np producers, nw Write
                    \* calls each with a payload length of lens, nr filenames
                    \* generated, nf I/O failures; and dir, the historical
                    \* files in the log directory at construction
    file,           \* w.file: the active handle (handles are 1, 2, ...)
    content,        \* content[h]: the bytes of the file behind handle h
    hstate,         \* hstate[h]: "open", "bgclosed" (post-rotation task), "closed" (Close)
    absExists,      \* whether a file exists at w.absPath
    hist,           \* the historical files on disk (by name)
    rollingfilech,  \* w.rollingfilech: the retention queue
    bg,             \* the running post-rotation goroutines of Reopen
    \* ---- rotation trigger (manager.fire)
    firePend,       \* filenames of the senders blocked on m.fire
    gen,            \* filenames generated so far (GenLogFileName)
    mgr,            \* the manager: cf.RollingPolicy, m.context, m.cr, the size
                    \* poller, and the caller of manager.Close
    \* ---- environment
    faults,         \* I/O failures still to inject
    \* ---- callers
    pr,             \* pr[p]: the producer's position and locals
    calls,          \* calls[p]: its Write calls, the last one running or returned
    mutex,          \* LockedWriter.Mutex: 0 free, else the holder
    lockOrder,      \* history: the calls in the order they acquired the mutex
    closer,         \* the goroutine calling Close
    \* ---- AsynchronousWriter
    closed,         \* w.closed
    ctx,            \* w.ctx is closed
    queue,          \* w.queue
    pool,           \* _asyncBufferPool: the lengths of the pooled slices
    cons,           \* the goroutine w.writer()
    enqd,           \* history: the buffers in the order they were enqueued
    \* ---- BufferWriter
    bufp,           \* w.buf: the slice header it points to, [arr, len]
    arrays,         \* the backing arrays of the buffer slices
    swaping,        \* w.swaping
    flushed,        \* history: the slices the flush wrote, as [arr, len]
    \* ---- history of the writes issued
    stale,          \* a write was issued on a handle retired by a rotation
    wfail           \* a file write failed

cfVars == <<cf, ops>>
coreVars == <<cfVars, mode, maxRemain, env, file, content, hstate, absExists, hist, rollingfilech, bg>>
fireVars == <<firePend, gen, mgr>>
callVars == <<pr, calls, mutex, lockOrder>>
asyncVars == <<closed, ctx, queue, pool, cons, enqd>>
bufVars == <<bufp, arrays, swaping, flushed>>
histVars == <<stale, wfail>>
vars == <<coreVars, fireVars, faults, callVars, closer, asyncVars, bufVars, histVars>>

\* ------------------------------------------------------------- sequences
RECURSIVE Flatten(_)
Flatten(ss) == IF ss = <<>> THEN <<>> ELSE Head(ss) \o Flatten(Tail(ss))

\* The positions of the bytes of call <<p, n>> in s.
Positions(s, p, n) == {i \in 1..Len(s) : ByteProd(s[i]) = p /\ ByteCall(s[i]) = n}

\* s holds the whole payload of call <<p, n>>, once, in order and contiguously.
HoldsPayload(s, p, n, len) ==
    \E k \in 0..(Len(s) - len) : /\ \A j \in 1..len : s[k + j] = Byte(p, n, j)
                                 /\ Positions(s, p, n) = (k + 1)..(k + len)

\* ------------------------------------------------------------ file system
Handles == 1..Len(content)

\* os.File.Write on handle h: it fails on a closed handle, and may fail by an
\* injected I/O error; a failed write leaves the file as it was.
WriteOutcomes(h) ==
    IF hstate[h] # "open" THEN {"err"}
    ELSE {"ok"} \cup (IF faults > 0 THEN {"fault"} ELSE {})

Retired(h) == hstate[h] = "bgclosed" \/ \E t \in bg : t.old = h

\* file.Write(data) on handle h with the chosen outcome.
FileWrite(h, data, out) ==
    /\ out \in WriteOutcomes(h)
    /\ content' = IF out = "ok" THEN [content EXCEPT ![h] = @ \o data] ELSE content
    /\ faults' = IF out = "fault" THEN faults - 1 ELSE faults
    /\ stale' = (stale \/ Retired(h))
    /\ wfail' = (wfail \/ out # "ok")

\* ------------------------------------------------------------- Reopen
\* What Reopen can do: the rename fails (always when nothing is at absPath),
\* the open of the fresh file fails, or the rotation succeeds.
ReopenOutcomes ==
    IF ~absExists THEN {"renameErr"}
    ELSE {"ok"} \cup (IF faults > 0 THEN {"renameErr", "openErr"} ELSE {})

\* atomic.SwapPointer(&w.file, newfile): the handle w.file holds afterwards.
SwapFile(newfile) == newfile

\* The goroutine Reopen starts for the retired handle: the retention step
\* when cf.MaxRemain > 0, then the deferred Close of the handle.
BgTask(name, oldfile) ==
    [name |-> name, old |-> oldfile, pc |-> IF maxRemain > 0 THEN "enq" ELSE "close"]

Reopen(name, out) ==
    /\ out \in ReopenOutcomes
    /\ faults' = IF out \in {"renameErr", "openErr"} /\ absExists THEN faults - 1 ELSE faults
    /\ CASE out = "renameErr" ->
                UNCHANGED <<file, content, hstate, absExists, hist, bg>>
         [] out = "openErr" ->
                /\ absExists' = FALSE
                /\ hist' = hist \cup {name}
                /\ UNCHANGED <<file, content, hstate, bg>>
         [] out = "ok" ->
                /\ hist' = hist \cup {name}
                /\ absExists' = TRUE
                /\ content' = Append(content, <<>>)
                /\ hstate' = Append(hstate, "open")
                /\ file' = SwapFile(Len(content) + 1)
                /\ bg' = bg \cup {BgTask(name, file)}

\* ------------------------------------------------- post-rotation goroutine
\* select { case w.rollingfilech <- file: default: w.DoRemove(); goto retry }
BgEnqueue(t) ==
    /\ t \in bg /\ t.pc = "enq"
    /\ IF Len(rollingfilech) < maxRemain
         THEN /\ rollingfilech' = Append(rollingfilech, t.name)
              /\ bg' = (bg \ {t}) \cup {[t EXCEPT !.pc = "close"]}
         ELSE /\ bg' = (bg \ {t}) \cup {[t EXCEPT !.pc = "rm"]}
              /\ UNCHANGED rollingfilech
    /\ UNCHANGED <<cfVars, mode, maxRemain, env, file, content, hstate, absExists, hist>>
    /\ UNCHANGED <<fireVars, faults, callVars, closer, asyncVars, bufVars, histVars>>

\* A DoRemove that waits for a name but takes none off the queue.
DoRemoveNoReceive ==
    /\ rollingfilech # <<>>
    /\ UNCHANGED <<rollingfilech, hist>>

\* DoRemove: receive the oldest name (blocking) and remove that file.
DoRemove ==
    /\ rollingfilech # <<>>
    /\ rollingfilech' = Tail(rollingfilech)
    /\ hist' = hist \ {Head(rollingfilech)}

BgRemove(t) ==
    /\ t \in bg /\ t.pc = "rm"
    /\ DoRemove
    /\ bg' = (bg \ {t}) \cup {[t EXCEPT !.pc = "enq"]}
    /\ UNCHANGED <<cfVars, mode, maxRemain, env, file, content, hstate, absExists>>
    /\ UNCHANGED <<fireVars, faults, callVars, closer, asyncVars, bufVars, histVars>>

\* defer oldfile.Close()
BgClose(t) ==
    /\ t \in bg /\ t.pc = "close"
    /\ hstate' = [hstate EXCEPT ![t.old] = IF @ = "open" THEN "bgclosed" ELSE @]
    /\ bg' = bg \ {t}
    /\ UNCHANGED <<cfVars, mode, maxRemain, env, file, content, absExists, hist, rollingfilech>>
    /\ UNCHANGED <<fireVars, faults, callVars, closer, asyncVars, bufVars, histVars>>

\* ------------------------------------------------------ rotation manager
\* GenLogFileName: the historical filenames are numbered in the order they
\* are generated.
GenLogFileName == gen + 1

\* TimeRolling: cron runs the job m.fire <- m.GenLogFileName(c) in a goroutine
\* of its own: the name is generated, then the sender blocks until a Write
\* receives it.  A stopped cron starts no job.
Trigger ==
    /\ mgr.policy = "time"
    /\ mgr.cr = "running"
    /\ gen < env.nr
    /\ gen' = GenLogFileName
    /\ firePend' = firePend \cup {GenLogFileName}
    /\ UNCHANGED <<coreVars, mgr, faults, callVars, closer, asyncVars, bufVars, histVars>>

\* A size check that always triggers.
OverThresholdAlways == TRUE

\* info.Size() > m.thresholdSize, for the file the poller opened at the log
\* path: while a file is at that path it is the one behind w.file.
OverThreshold == Len(content[file]) > mgr.thresholdSize

\* VolumeRolling, case <-timer: the poller opens the file at the log path and,
\* when its size exceeds m.thresholdSize, generates a name and blocks in the
\* send on m.fire.  (A tick that finds no file or a small file changes nothing.)
PollerTick ==
    /\ mgr.poller = "wait"
    /\ absExists
    /\ OverThreshold
    /\ gen < env.nr
    /\ gen' = GenLogFileName
    /\ firePend' = firePend \cup {GenLogFileName}
    /\ mgr' = [mgr EXCEPT !.poller = "send"]
    /\ UNCHANGED <<coreVars, faults, callVars, closer, asyncVars, bufVars, histVars>>

\* VolumeRolling, case <-m.context: return
PollerStop ==
    /\ mgr.poller = "wait"
    /\ mgr.context = "closed"
    /\ mgr' = [mgr EXCEPT !.poller = "exit"]
    /\ UNCHANGED <<coreVars, firePend, gen, faults, callVars, closer, asyncVars, bufVars, histVars>>

\* The manager after a Write received a name from m.fire: the poller blocked
\* in the send goes on to its next select (a cron job just ends).
FireReceived == IF mgr.poller = "send" THEN [mgr EXCEPT !.poller = "wait"] ELSE mgr

\* manager.Close, close(m.context): closing a closed channel panics.
ManagerClose ==
    /\ mgr.closer = "idle"
    /\ mgr.closes < MaxCloses
    /\ mgr' = IF mgr.context = "closed"
                THEN [mgr EXCEPT !.panic = TRUE, !.closer = "panic"]
                ELSE [mgr EXCEPT !.context = "closed", !.closer = "stop"]
    /\ UNCHANGED <<coreVars, firePend, gen, faults, callVars, closer, asyncVars, bufVars, histVars>>

\* manager.Close, m.cr.Stop(), and the return
ManagerStopCron ==
    /\ mgr.closer = "stop"
    /\ mgr' = [mgr EXCEPT !.cr = "stopped", !.closer = "idle", !.closes = @ + 1]
    /\ UNCHANGED <<coreVars, firePend, gen, faults, callVars, closer, asyncVars, bufVars, histVars>>

\* The program runs until a goroutine panics.
Running == ~mgr.panic

\* ---------------------------------------------------------------- callers
CurN(p) == Len(calls[p])
Cur(p) == calls[p][CurN(p)]
CurData(p) == Payload(p, CurN(p), Cur(p).len)

\* A Write call: its payload length and result, and its history: whether it
\* received a filename (rot), whether that Reopen failed (rotFail), the active
\* handle when its poll was over (gen), whether Close was called before it
\* returned (late), whether w.closed was set when it was entered (afterClose),
\* whether an error was offered on errChan when it ran its select (offered).
NewCall(len) ==
    [len |-> len, out |-> "run", rot |-> FALSE, rotFail |-> FALSE, gen |-> 0,
     late |-> closer.pc # "idle", afterClose |-> closed = 1, offered |-> FALSE]

IdleProducer == [pc |-> "idle", fp |-> 0, rest |-> <<>>, lb |-> <<0, 0>>]

\* A caller may enter Write(b); the call begins with its first step.
CanBegin(p) == p <= env.np /\ pr[p].pc = "idle" /\ Len(calls[p]) < env.nw

\* The calls of p with a new call of a payload of len bytes.
Entered(p, len) == Append(calls[p], NewCall(len))

\* The producer at its next position; at "idle" Write has returned.
Goto(p, pc) == IF pc = "idle" THEN IdleProducer ELSE [pr[p] EXCEPT !.pc = pc]

\* The position after the poll of w.fire, by WriterMode.
AfterPoll == [none |-> "load", lock |-> "lwrite", buffer |-> "bread"]

\* A Write that goes on whatever Reopen returned.
AfterReopenIgnoresError(out, next) == next

\* Where Write goes after Reopen returned: on with the write, or out with the error.
AfterReopen(out, next) == IF out = "ok" THEN next ELSE "idle"

\* The call record after the select received a filename and ran Reopen.
Rotated(c, out, newfile, oldfile) ==
    [c EXCEPT !.rot = TRUE, !.rotFail = (out # "ok"),
              !.gen = IF out = "ok" THEN newfile ELSE oldfile,
              !.out = IF out = "ok" THEN "run" ELSE "rotErr"]

\* select { case filename := <-w.fire: Reopen(filename); default: } of Writer,
\* LockedWriter and BufferWriter.  The default branch is taken only when no
\* sender waits on w.fire.  It is the first step of Writer.Write and of
\* BufferWriter.Write; LockedWriter.Write runs it under the mutex, which the
\* deferred Unlock releases when Reopen fails.
Poll(p) ==
    /\ mode \in {"none", "lock", "buffer"}
    /\ IF mode = "lock" THEN pr[p].pc = "poll" ELSE CanBegin(p)
    /\ \E len \in (IF mode = "lock" THEN {Cur(p).len} ELSE env.lens) :
        LET cs == IF mode = "lock" THEN calls[p] ELSE Entered(p, len)
        IN \/ \E name \in firePend : \E out \in ReopenOutcomes :
                /\ Reopen(name, out)
                /\ firePend' = firePend \ {name}
                /\ pr' = [pr EXCEPT ![p] = Goto(p, AfterReopen(out, AfterPoll[mode]))]
                /\ calls' = [calls EXCEPT ![p] =
                                [cs EXCEPT ![Len(cs)] = Rotated(@, out, file', file)]]
                /\ mutex' = IF mutex = p /\ AfterReopen(out, "on") = "idle" THEN 0 ELSE mutex
                /\ mgr' = FireReceived
           \/ /\ firePend = {}
              /\ pr' = [pr EXCEPT ![p].pc = AfterPoll[mode]]
              /\ calls' = [calls EXCEPT ![p] = [cs EXCEPT ![Len(cs)].gen = file]]
              /\ UNCHANGED <<file, content, hstate, absExists, hist, bg, faults, firePend, mgr, mutex>>
    /\ UNCHANGED <<cfVars, mode, maxRemain, env, rollingfilech, gen, lockOrder>>
    /\ UNCHANGED <<closer, asyncVars, bufVars, histVars>>

\* ------------------------------------------------------------ Writer (none)
\* fp := atomic.LoadPointer(&w.file)
NoneLoad(p) ==
    /\ pr[p].pc = "load"
    /\ pr' = [pr EXCEPT ![p].pc = "write", ![p].fp = file]
    /\ UNCHANGED <<coreVars, fireVars, faults, calls, mutex, lockOrder, closer, asyncVars, bufVars, histVars>>

\* return file.Write(b)
NoneWrite(p) ==
    /\ pr[p].pc = "write"
    /\ \E out \in WriteOutcomes(pr[p].fp) :
          /\ FileWrite(pr[p].fp, CurData(p), out)
          /\ calls' = [calls EXCEPT ![p][CurN(p)].out = IF out = "ok" THEN "ok" ELSE "writeErr"]
    /\ pr' = [pr EXCEPT ![p] = IdleProducer]
    /\ UNCHANGED <<cfVars, mode, maxRemain, env, file, hstate, absExists, hist, rollingfilech, bg>>
    /\ UNCHANGED <<fireVars, mutex, lockOrder, closer, asyncVars, bufVars>>

\* ------------------------------------------------------------ LockedWriter
\* A mutex that excludes nobody.
LockFreeNoExclusion(p) == TRUE

\* w.Lock() succeeds for p when nobody holds the mutex.
LockFree(p) == mutex = 0

\* w.Lock(): the first step of LockedWriter.Write
Lock(p) ==
    /\ mode = "lock"
    /\ CanBegin(p)
    /\ LockFree(p)
    /\ mutex' = p
    /\ \E len \in env.lens : calls' = [calls EXCEPT ![p] = Entered(p, len)]
    /\ lockOrder' = Append(lockOrder, <<p, Len(calls[p]) + 1>>)
    /\ pr' = [pr EXCEPT ![p].pc = "poll"]
    /\ UNCHANGED <<coreVars, fireVars, faults, closer, asyncVars, bufVars, histVars>>

\* n, err = w.file.Write(b) under the mutex, and the deferred Unlock
LockedWrite(p) ==
    /\ pr[p].pc = "lwrite"
    /\ \E out \in WriteOutcomes(file) :
          /\ FileWrite(file, CurData(p), out)
          /\ calls' = [calls EXCEPT ![p][CurN(p)].out = IF out = "ok" THEN "ok" ELSE "writeErr"]
    /\ pr' = [pr EXCEPT ![p] = IdleProducer]
    /\ mutex' = IF mutex = p THEN 0 ELSE mutex
    /\ UNCHANGED <<cfVars, mode, maxRemain, env, file, hstate, absExists, hist, rollingfilech, bg>>
    /\ UNCHANGED <<fireVars, lockOrder, closer, asyncVars, bufVars>>

\* ------------------------------------------------------ AsynchronousWriter
\* The slice lengths _asyncBufferPool.Get() can return: a pooled slice, which
\* has the length of the data it last carried, or a new one of BufferSize.
PoolGet == pool \cup {BufferSize}

\* The consumer is blocked in w.errChan <- err.
ErrOffered == cons.pc = "send"

\* if atomic.LoadInt32(&w.closed) == 0 { select ... }; return 0, ErrClosed:
\* the first step of AsynchronousWriter.Write
AsyncCheckClosed(p) ==
    /\ mode = "async"
    /\ CanBegin(p)
    /\ \E len \in env.lens :
          IF closed = 0
            THEN /\ pr' = [pr EXCEPT ![p].pc = "sel"]
                 /\ calls' = [calls EXCEPT ![p] = Entered(p, len)]
            ELSE /\ pr' = pr
                 /\ calls' = [calls EXCEPT ![p] =
                                 Append(@, [NewCall(len) EXCEPT !.out = "closedErr"])]
    /\ UNCHANGED <<coreVars, fireVars, faults, mutex, lockOrder, closer, asyncVars, bufVars, histVars>>

\* case err := <-w.errChan: return 0, err.  The consumer blocked in
\* w.errChan <- err goes on to _asyncBufferPool.Put(b).
AsyncRecvErr(p) ==
    /\ pr[p].pc = "sel"
    /\ ErrOffered
    /\ cons' = [pc |-> "recv", b |-> <<>>, fp |-> 0]
    /\ pool' = pool \cup {Len(cons.b)}
    /\ pr' = [pr EXCEPT ![p] = IdleProducer]
    /\ calls' = [calls EXCEPT ![p][CurN(p)] = [@ EXCEPT !.out = "relayErr", !.offered = TRUE]]
    /\ UNCHANGED <<coreVars, fireVars, faults, mutex, lockOrder, closer>>
    /\ UNCHANGED <<closed, ctx, queue, enqd, bufVars, histVars>>

\* case filename := <-w.fire: Reopen(filename), then the payload goes to the
\* queue in chunks (for an empty payload the loop has no turn).  select chooses among the ready cases at random, so this
\* branch can be taken while an error is offered on errChan.
AsyncRecvFire(p) ==
    /\ pr[p].pc = "sel"
    /\ \E name \in firePend : \E out \in ReopenOutcomes :
          /\ Reopen(name, out)
          /\ firePend' = firePend \ {name}
          /\ mgr' = FireReceived
          /\ LET next == IF CurData(p) = <<>> THEN "idle" ELSE AfterReopen(out, "enq")
             IN /\ pr' = [pr EXCEPT ![p] = [Goto(p, next) EXCEPT
                                   !.rest = IF out = "ok" THEN CurData(p) ELSE <<>>]]
                /\ calls' = [calls EXCEPT ![p][CurN(p)] =
                      [Rotated(@, out, file', file) EXCEPT
                          !.offered = ErrOffered,
                          !.out = IF out = "ok" /\ next = "idle" THEN "ok" ELSE @]]
    /\ UNCHANGED <<cfVars, mode, maxRemain, env, rollingfilech, gen, mutex, lockOrder>>
    /\ UNCHANGED <<closer, asyncVars, bufVars, histVars>>

\* for len(b) > 0 { buf := Get(); n := copy(buf, b); w.queue <- buf[:n]; b = b[n:] }
\* return l, nil.  The send blocks while the queue is full.
AsyncEnqueueChunk(p) ==
    /\ pr[p].pc = "enq"
    /\ Len(queue) < QueueSize
    /\ \E l \in PoolGet :
          LET n == IF l < Len(pr[p].rest) THEN l ELSE Len(pr[p].rest)
              chunk == SubSeq(pr[p].rest, 1, n)
              left == SubSeq(pr[p].rest, n + 1, Len(pr[p].rest))
          IN /\ queue' = Append(queue, chunk)
             /\ enqd' = enqd \o chunk
             /\ pool' = pool \ {l}
             /\ pr' = [pr EXCEPT ![p] = IF left = <<>> THEN IdleProducer
                                        ELSE [@ EXCEPT !.rest = left]]
             /\ calls' = IF left = <<>> THEN [calls EXCEPT ![p][CurN(p)].out = "ok"]
                         ELSE calls
    /\ UNCHANGED <<coreVars, fireVars, faults, mutex, lockOrder, closer>>
    /\ UNCHANGED <<closed, ctx, cons, bufVars, histVars>>

\* default: w.queue <- append(Get()[0:0], b...)[:len(b)]; return len(b), nil.
\* Taken only when neither errChan nor fire has a sender waiting.
AsyncEnqueueDefault(p) ==
    /\ pr[p].pc = "sel"
    /\ ~ErrOffered
    /\ firePend = {}
    /\ Len(queue) < QueueSize
    /\ \E l \in PoolGet : pool' = pool \ {l}
    /\ queue' = Append(queue, CurData(p))
    /\ enqd' = enqd \o CurData(p)
    /\ pr' = [pr EXCEPT ![p] = IdleProducer]
    /\ calls' = [calls EXCEPT ![p][CurN(p)] = [@ EXCEPT !.out = "ok", !.gen = file]]
    /\ UNCHANGED <<coreVars, fireVars, faults, mutex, lockOrder, closer>>
    /\ UNCHANGED <<closed, ctx, cons, bufVars, histVars>>

\* w.writer(): case b := <-w.queue, and the read of w.file for w.file.Write(b)
ConsumerRecv ==
    /\ cons.pc = "recv"
    /\ queue # <<>>
    /\ cons' = [pc |-> "write", b |-> Head(queue), fp |-> file]
    /\ queue' = Tail(queue)
    /\ UNCHANGED <<coreVars, fireVars, faults, callVars, closer>>
    /\ UNCHANGED <<closed, ctx, pool, enqd, bufVars, histVars>>

\* w.writer(): case <-w.ctx: return
ConsumerStop ==
    /\ cons.pc = "recv"
    /\ ctx
    /\ cons' = [cons EXCEPT !.pc = "exit"]
    /\ UNCHANGED <<coreVars, fireVars, faults, callVars, closer>>
    /\ UNCHANGED <<closed, ctx, queue, pool, enqd, bufVars, histVars>>

\* w.writer(): if _, err = w.file.Write(b); err != nil { w.errChan <- err };
\* _asyncBufferPool.Put(b).  After a failure the consumer blocks in the send.
ConsumerWrite ==
    /\ cons.pc = "write"
    /\ \E out \in WriteOutcomes(cons.fp) :
          /\ FileWrite(cons.fp, cons.b, out)
          /\ IF out = "ok"
               THEN /\ cons' = [pc |-> "recv", b |-> <<>>, fp |-> 0]
                    /\ pool' = pool \cup {Len(cons.b)}
               ELSE /\ cons' = [cons EXCEPT !.pc = "send"]
                    /\ UNCHANGED pool
    /\ UNCHANGED <<cfVars, mode, maxRemain, env, file, hstate, absExists, hist, rollingfilech, bg>>
    /\ UNCHANGED <<fireVars, callVars, closer, closed, ctx, queue, enqd, bufVars>>

\* ------------------------------------------------------------------ Close
IdleCloser == [pc |-> "idle", fp |-> 0, buf |-> <<0, 0>>]

\* Close is called: the Write calls running now overlap it.
CloseEntered ==
    [p \in Producers |->
        IF pr[p].pc # "idle" THEN [calls[p] EXCEPT ![CurN(p)].late = TRUE] ELSE calls[p]]

\* Writer.Close: return (*os.File)(atomic.LoadPointer(&w.file)).Close()
CloseNone ==
    /\ mode = "none"
    /\ closer.pc = "idle"
    /\ calls' = CloseEntered
    /\ hstate' = [hstate EXCEPT ![file] = IF @ = "open" THEN "closed" ELSE @]
    /\ closer' = [closer EXCEPT !.pc = "done"]
    /\ UNCHANGED <<cfVars, mode, maxRemain, env, file, content, absExists, hist, rollingfilech, bg>>
    /\ UNCHANGED <<fireVars, faults, pr, mutex, lockOrder, asyncVars, bufVars, histVars>>

\* LockedWriter.Close: w.Lock()
CloseLock ==
    /\ mode = "lock"
    /\ closer.pc = "idle"
    /\ LockFree(0)
    /\ mutex' = -1
    /\ calls' = CloseEntered
    /\ closer' = [closer EXCEPT !.pc = "fclose"]
    /\ UNCHANGED <<coreVars, fireVars, faults, pr, lockOrder, asyncVars, bufVars, histVars>>

\* AsynchronousWriter.Close: if CompareAndSwapInt32(&w.closed, 0, 1) {
\* close(w.ctx); w.onClose(); return w.file.Close() }; return ErrClosed
CloseCas ==
    /\ mode = "async"
    /\ closer.pc = "idle"
    /\ calls' = CloseEntered
    /\ IF closed = 0
         THEN /\ closed' = 1
              /\ ctx' = TRUE
              /\ closer' = [closer EXCEPT !.pc = "drain"]
         ELSE /\ closer' = [closer EXCEPT !.pc = "done"]
              /\ UNCHANGED <<closed, ctx>>
    /\ UNCHANGED <<coreVars, fireVars, faults, pr, mutex, lockOrder>>
    /\ UNCHANGED <<queue, pool, cons, enqd, bufVars, histVars>>

\* onClose: one turn of the loop.  A failed write ends the drain: the
\* non-blocking send on errChan finds no receiver waiting (Write receives in
\* a select with a default), so the default branch returns.
CloseDrain ==
    /\ closer.pc = "drain"
    /\ IF queue = <<>>
         THEN /\ closer' = [closer EXCEPT !.pc = "fclose"]
              /\ UNCHANGED <<queue, pool, content, faults, histVars>>
         ELSE /\ queue' = Tail(queue)
              /\ pool' = pool \cup {Len(Head(queue))}
              /\ \E out \in WriteOutcomes(file) :
                    /\ FileWrite(file, Head(queue), out)
                    /\ closer' = [closer EXCEPT !.pc = IF out = "ok" THEN "drain" ELSE "fclose"]
    /\ UNCHANGED <<cfVars, mode, maxRemain, env, file, hstate, absExists, hist, rollingfilech, bg>>
    /\ UNCHANGED <<fireVars, callVars, closed, ctx, cons, enqd, bufVars>>

\* w.file.Close(), the last statement of Close (with the deferred Unlock of
\* LockedWriter.Close).  BufferWriter.Close has a value receiver: it closes
\* the handle its copy of the writer holds.
FileClose ==
    /\ closer.pc = "fclose"
    /\ LET h == IF mode = "buffer" THEN closer.fp ELSE file
       IN hstate' = [hstate EXCEPT ![h] = IF @ = "open" THEN "closed" ELSE @]
    /\ closer' = [closer EXCEPT !.pc = "done"]
    /\ mutex' = IF mutex = -1 THEN 0 ELSE mutex
    /\ UNCHANGED <<cfVars, mode, maxRemain, env, file, content, absExists, hist, rollingfilech, bg>>
    /\ UNCHANGED <<fireVars, faults, pr, calls, lockOrder, asyncVars, bufVars, histVars>>

\* ------------------------------------------------------------ BufferWriter
\* make([]byte, 0, n): a backing array of n zero bytes.
MakeArray(n) == [i \in 1..n |-> 0]

\* The bytes of the slice with header hdr = <<array, length>>.
SliceData(hdr) == SubSeq(arrays[hdr[1]], 1, hdr[2])

Max(a, b) == IF a > b THEN a ELSE b

\* buf := append(*w.buf, b...): the header of *w.buf is read, and b is copied
\* behind its length: into the same backing array when its capacity allows
\* (whatever another producer has put there), else into a grown copy.
BufAppend(p) ==
    /\ pr[p].pc = "bread"
    /\ LET a == bufp[1]
           l == bufp[2]
           b == CurData(p)
           n == l + Len(b)
       IN IF n <= Len(arrays[a])
            THEN /\ arrays' = [arrays EXCEPT ![a] =
                                  [i \in 1..Len(@) |-> IF i > l /\ i <= n THEN b[i - l] ELSE @[i]]]
                 /\ pr' = [pr EXCEPT ![p].pc = "bstore", ![p].lb = <<a, n>>]
            ELSE /\ arrays' = Append(arrays,
                                  [i \in 1..Max(n, 2 * Len(arrays[a])) |->
                                      IF i <= l THEN arrays[a][i]
                                      ELSE IF i <= n THEN b[i - l] ELSE 0])
                 /\ pr' = [pr EXCEPT ![p].pc = "bstore", ![p].lb = <<Len(arrays) + 1, n>>]
    /\ UNCHANGED <<coreVars, fireVars, faults, calls, mutex, lockOrder, closer>>
    /\ UNCHANGED <<asyncVars, bufp, swaping, flushed, histVars>>

\* atomic.StorePointer(&w.buf, &buf)
BufStore(p) ==
    /\ pr[p].pc = "bstore"
    /\ bufp' = pr[p].lb
    /\ pr' = [pr EXCEPT ![p].pc = "blen"]
    /\ UNCHANGED <<coreVars, fireVars, faults, calls, mutex, lockOrder, closer>>
    /\ UNCHANGED <<asyncVars, arrays, swaping, flushed, histVars>>

\* if len(*w.buf) > w.cf.BufferWriterThreshold && ... ; else return len(b), nil
BufLen(p) ==
    /\ pr[p].pc = "blen"
    /\ IF bufp[2] > BufferWriterThreshold
         THEN /\ pr' = [pr EXCEPT ![p].pc = "bcas"]
              /\ UNCHANGED calls
         ELSE /\ pr' = [pr EXCEPT ![p] = IdleProducer]
              /\ calls' = [calls EXCEPT ![p][CurN(p)].out = "ok"]
    /\ UNCHANGED <<coreVars, fireVars, faults, mutex, lockOrder, closer>>
    /\ UNCHANGED <<asyncVars, bufVars, histVars>>

\* ... && atomic.CompareAndSwapInt32(&w.swaping, 0, 1)
BufCas(p) ==
    /\ pr[p].pc = "bcas"
    /\ IF swaping = 0
         THEN /\ swaping' = 1
              /\ pr' = [pr EXCEPT ![p].pc = "bswap"]
              /\ UNCHANGED calls
         ELSE /\ pr' = [pr EXCEPT ![p] = IdleProducer]
              /\ calls' = [calls EXCEPT ![p][CurN(p)].out = "ok"]
              /\ UNCHANGED swaping
    /\ UNCHANGED <<coreVars, fireVars, faults, mutex, lockOrder, closer>>
    /\ UNCHANGED <<asyncVars, bufp, arrays, flushed, histVars>>

\* nb := make([]byte, 0, Threshold*2); ob := atomic.SwapPointer(&w.buf, &nb)
BufSwap(p) ==
    /\ pr[p].pc = "bswap"
    /\ arrays' = Append(arrays, MakeArray(2 * BufferWriterThreshold))
    /\ bufp' = <<Len(arrays) + 1, 0>>
    /\ pr' = [pr EXCEPT ![p].pc = "bload", ![p].lb = bufp]
    /\ UNCHANGED <<coreVars, fireVars, faults, calls, mutex, lockOrder, closer>>
    /\ UNCHANGED <<asyncVars, swaping, flushed, histVars>>

\* the read of w.file in w.file.Write(*ob)
BufLoadFile(p) ==
    /\ pr[p].pc = "bload"
    /\ pr' = [pr EXCEPT ![p].pc = "bwrite", ![p].fp = file]
    /\ UNCHANGED <<coreVars, fireVars, faults, calls, mutex, lockOrder, closer>>
    /\ UNCHANGED <<asyncVars, bufVars, histVars>>

\* w.file.Write(*ob): the result is dropped
BufFlush(p) ==
    /\ pr[p].pc = "bwrite"
    /\ \E out \in WriteOutcomes(pr[p].fp) : FileWrite(pr[p].fp, SliceData(pr[p].lb), out)
    /\ pr' = [pr EXCEPT ![p].pc = "breset"]
    /\ flushed' = Append(flushed, pr[p].lb)
    /\ UNCHANGED <<cfVars, mode, maxRemain, env, file, hstate, absExists, hist, rollingfilech, bg>>
    /\ UNCHANGED <<fireVars, calls, mutex, lockOrder, closer, asyncVars, bufp, arrays, swaping>>

\* atomic.StoreInt32(&w.swaping, 0); return len(b), nil
BufReset(p) ==
    /\ pr[p].pc = "breset"
    /\ swaping' = 0
    /\ pr' = [pr EXCEPT ![p] = IdleProducer]
    /\ calls' = [calls EXCEPT ![p][CurN(p)].out = "ok"]
    /\ UNCHANGED <<coreVars, fireVars, faults, mutex, lockOrder, closer>>
    /\ UNCHANGED <<asyncVars, bufp, arrays, flushed, histVars>>

\* BufferWriter.Close has a value receiver: the call copies the writer, with
\* its w.file and w.buf.
CloseCopy ==
    /\ mode = "buffer"
    /\ closer.pc = "idle"
    /\ calls' = CloseEntered
    /\ closer' = [pc |-> "bflush", fp |-> file, buf |-> bufp]
    /\ UNCHANGED <<coreVars, fireVars, faults, pr, mutex, lockOrder>>
    /\ UNCHANGED <<asyncVars, bufVars, histVars>>

\* _, err := w.file.Write(*w.buf); if err != nil { return err }
CloseFlush ==
    /\ closer.pc = "bflush"
    /\ \E out \in WriteOutcomes(closer.fp) :
          /\ FileWrite(closer.fp, SliceData(closer.buf), out)
          /\ closer' = [closer EXCEPT !.pc = IF out = "ok" THEN "fclose" ELSE "done"]
    /\ UNCHANGED <<cfVars, mode, maxRemain, env, file, hstate, absExists, hist, rollingfilech, bg>>
    /\ UNCHANGED <<fireVars, callVars, asyncVars, bufVars>>

\* ------------------------------------------------------------------- Init
\* sort.Slice(files, by time tag): the names of S, oldest first.
RECURSIVE SortFiles(_)
SortFiles(S) ==
    IF S = {} THEN <<>>
    ELSE LET f == CHOOSE x \in S : \A y \in S : x <= y
         IN <<f>> \o SortFiles(S \ {f})

\* for _, file := range files { retry: select { case rollingfilech <- file:
\* default: DoRemove(); goto retry } }: the retention queue q of capacity k
\* and the files left on disk.
RECURSIVE TrimHistory(_, _, _, _)
TrimHistory(files, q, disk, k) ==
    IF files = <<>> THEN [q |-> q, disk |-> disk]
    ELSE IF Len(q) < k THEN TrimHistory(Tail(files), Append(q, Head(files)), disk, k)
    ELSE TrimHistory(files, Tail(q), disk \ {Head(q)}, k)

\* ------------------------------------------------------------ ParseVolume
LowerLetters == <<"a", "b", "c", "d", "e", "f", "g", "h", "i", "j", "k", "l", "m",
                  "n", "o", "p", "q", "r", "s", "t", "u", "v", "w", "x", "y", "z">>
UpperLetters == <<"A", "B", "C", "D", "E", "F", "G", "H", "I", "J", "K", "L", "M",
                  "N", "O", "P", "Q", "R", "S", "T", "U", "V", "W", "X", "Y", "Z">>

\* strings.ToUpper
ToUpper(s) ==
    [i \in 1..Len(s) |->
        IF \E k \in 1..Len(LowerLetters) : LowerLetters[k] = s[i]
          THEN UpperLetters[CHOOSE k \in 1..Len(LowerLetters) : LowerLetters[k] = s[i]]
          ELSE s[i]]

\* strings.Contains
Contains(s, sub) ==
    \E i \in 0..(Len(s) - Len(sub)) : SubSeq(s, i + 1, i + Len(sub)) = sub

Digits == <<"0", "1", "2", "3", "4", "5", "6", "7", "8", "9">>
IsDigit(ch) == \E d \in 1..Len(Digits) : Digits[d] = ch
DigitVal(ch) == (CHOOSE d \in 1..Len(Digits) : Digits[d] = ch) - 1

\* The number a string of digits denotes.
RECURSIVE Decimal(_)
Decimal(s) ==
    IF s = <<>> THEN 0 ELSE 10 * Decimal(SubSeq(s, 1, Len(s) - 1)) + DigitVal(s[Len(s)])

\* p, _ := strconv.Atoi(s): an optional sign and digits; 0 on a syntax error
\* (the error is dropped).
Atoi(s) ==
    LET signed == s # <<>> /\ s[1] \in {"+", "-"}
        body == IF signed THEN Tail(s) ELSE s
    IN IF body # <<>> /\ \A i \in 1..Len(body) : IsDigit(body[i])
         THEN (IF signed /\ s[1] = "-" THEN 0 - Decimal(body) ELSE Decimal(body))
         ELSE 0

\* An int64 size n * 1024^exp is kept as <<n, exp>> (1024^4 is beyond the
\* integers of the model checker); 0 is <<0, 0>>.
Size(n, exp) == IF n = 0 THEN <<0, 0>> ELSE <<n, exp>>

\* switch unitstr { default: fallthrough; case "T", "TB": unit *= 1024;
\* fallthrough; case "G", "GB": ...; case "K", "KB": unit *= 1024 }: the
\* number of factors 1024 in unit.
UnitExp(unitstr) ==
    CASE unitstr \in {<<"K">>, <<"K", "B">>} -> 1
      [] unitstr \in {<<"M">>, <<"M", "B">>} -> 2
      [] unitstr \in {<<"G">>, <<"G", "B">>} -> 3
      [] OTHER -> 4

\* manager.ParseVolume: the m.thresholdSize it sets for c.RollingVolumeSize.
ParseVolume(size) ==
    LET s == ToUpper(size)
    IN IF ~(\/ Contains(s, <<"K">>) \/ Contains(s, <<"K", "B">>)
            \/ Contains(s, <<"M">>) \/ Contains(s, <<"M", "B">>)
            \/ Contains(s, <<"G">>) \/ Contains(s, <<"G", "B">>)
            \/ Contains(s, <<"T">>) \/ Contains(s, <<"T", "B">>))
         THEN Size(1, 3)
         ELSE LET endsB == s[Len(s)] = "B"
                  p == IF endsB THEN Atoi(SubSeq(s, 1, Len(s) - 2))
                       ELSE Atoi(SubSeq(s, 1, Len(s) - 1))
                  unitstr == IF endsB THEN SubSeq(s, Len(s) - 1, Len(s))
                             ELSE <<s[Len(s)]>>
              IN Size(p, UnitExp(unitstr))

\* NewManager, case VolumeRolling: m.ParseVolume(c), then the poller starts.
ParseVolumeStep ==
    /\ mgr.poller = "new"
    /\ mgr' = [mgr EXCEPT !.thresholdSize = ParseVolume(cf.RollingVolumeSize),
                          !.poller = "wait"]
    /\ UNCHANGED <<coreVars, firePend, gen, faults, callVars, closer, asyncVars, bufVars, histVars>>

\* NewManager: the manager for RollingPolicy pol, with cron started under
\* TimeRolling and the poller at its select under VolumeRolling.
NewManager(pol) ==
    [policy |-> pol, context |-> "open", thresholdSize |-> ThresholdSize,
     cr |-> IF pol = "time" THEN "running" ELSE "idle",
     poller |-> IF pol = "volume" THEN "wait" ELSE "none",
     closer |-> "idle", closes |-> 0, panic |-> FALSE]

\* const ( WithoutRolling = iota; TimeRolling; VolumeRolling )
WithoutRolling == 0
TimeRolling == 1
VolumeRolling == 2

\* A string is the sequence of its characters.
DefaultVolumeSize == <<"1", "G">>

\* NewDefaultConfig()
NewDefaultConfig ==
    [TimeTagFormat |-> "200601021504", LogPath |-> "./log", FileName |-> "log",
     MaxRemain |-> -1, RollingPolicy |-> 1, RollingTimePattern |-> "0 0 * * *",
     RollingVolumeSize |-> DefaultVolumeSize, WriterMode |-> "lock",
     BufferWriterThreshold |-> 64, Compress |-> FALSE]

\* ---------------------------------------------------------------- Options
\* No option given, or all applied.
NoOptions == [list |-> <<>>, i |-> 1]

\* An Option: the constructor called and its argument (0 when it takes none).
Opt(name, arg) == [name |-> name, arg |-> arg]

\* The assignments the Option's func(c *Config) makes: field |-> value.
OptionWrites(o) ==
    CASE o.name = "WithTimeTagFormat" -> [TimeTagFormat |-> o.arg]
      [] o.name = "WithLogPath" -> [LogPath |-> o.arg]
      [] o.name = "WithFileName" -> [FileName |-> o.arg]
      [] o.name = "WithAsynchronous" -> [WriterMode |-> "async"]
      [] o.name = "WithLock" -> [WriterMode |-> "lock"]
      [] o.name = "WithBuffer" -> [WriterMode |-> "buffer"]
      [] o.name = "WithBufferThreshold" -> [BufferWriterThreshold |-> o.arg]
      [] o.name = "WithCompress" -> [Compress |-> TRUE]
      [] o.name = "WithMaxRemain" -> [MaxRemain |-> o.arg]
      [] o.name = "WithoutRollingPolicy" -> [RollingPolicy |-> WithoutRolling]
      [] o.name = "WithRollingTimePattern" ->
             [RollingPolicy |-> TimeRolling, RollingTimePattern |-> o.arg]
      [] o.name = "WithRollingVolumeSize" ->
             [RollingPolicy |-> VolumeRolling, RollingVolumeSize |-> o.arg]

\* An option that leaves alone a field an earlier option has changed.
ApplyOptionFirstWins(c, o) ==
    [f \in DOMAIN c |->
        IF f \in DOMAIN OptionWrites(o) /\ c[f] = NewDefaultConfig[f]
          THEN OptionWrites(o)[f] ELSE c[f]]

\* opt(&cfg): the Config after the option's assignments.
ApplyOption(c, o) ==
    [f \in DOMAIN c |-> IF f \in DOMAIN OptionWrites(o) THEN OptionWrites(o)[f] ELSE c[f]]

\* NewWriter: for _, opt := range ops { opt(&cfg) }, one turn of the loop.
ApplyNext ==
    /\ ops.i <= Len(ops.list)
    /\ cf' = ApplyOption(cf, ops.list[ops.i])
    /\ ops' = [ops EXCEPT !.i = @ + 1]
    /\ UNCHANGED <<mode, maxRemain, env, file, content, hstate, absExists, hist, rollingfilech, bg>>
    /\ UNCHANGED <<fireVars, faults, callVars, closer, asyncVars, bufVars, histVars>>

\* c.RollingPolicy of the policy the manager switches on.
PolicyCode == [none |-> WithoutRolling, time |-> TimeRolling, volume |-> VolumeRolling]

\* The Config of a writer of WriterMode m, MaxRemain k and RollingPolicy pol.
ConfigOf(m, k, pol) ==
    [NewDefaultConfig EXCEPT !.WriterMode = m, !.MaxRemain = k,
                             !.RollingPolicy = PolicyCode[pol],
                             !.BufferWriterThreshold = BufferWriterThreshold]

\* The writer NewWriterFromConfig returns for WriterMode m and MaxRemain k,
\* with the historical files e.dir in the log directory; e bounds the
\* environment.
InitFiles(m, k, e) ==
    /\ mode = m
    /\ maxRemain = k
    /\ env = e
    /\ file = 1
    /\ content = << <<>> >>
    /\ hstate = <<"open">>
    /\ absExists = TRUE
    /\ hist = IF k > 0 THEN TrimHistory(SortFiles(e.dir), <<>>, e.dir, k).disk ELSE e.dir
    /\ rollingfilech = IF k > 0 THEN TrimHistory(SortFiles(e.dir), <<>>, e.dir, k).q ELSE <<>>
    /\ bg = {}
    /\ firePend = {}
    /\ gen = 0
    /\ faults = e.nf
    /\ pr = [p \in Producers |-> IdleProducer]
    /\ calls = [p \in Producers |-> <<>>]
    /\ mutex = 0
    /\ lockOrder = <<>>
    /\ closer = IdleCloser
    /\ closed = 0
    /\ ctx = FALSE
    /\ queue = <<>>
    /\ pool = {}
    /\ cons = [pc |-> IF m = "async" THEN "recv" ELSE "none", b |-> <<>>, fp |-> 0]
    /\ enqd = <<>>
    /\ bufp = <<1, 0>>
    /\ arrays = << MakeArray(2 * BufferWriterThreshold) >>
    /\ swaping = 0
    /\ flushed = <<>>
    /\ stale = FALSE
    /\ wfail = FALSE

\* The state NewWriterFromConfig returns for WriterMode m, MaxRemain k and
\* RollingPolicy pol: the Config, the manager and the writer.
InitWriter(m, k, pol, e) ==
    /\ cf = ConfigOf(m, k, pol)
    /\ ops = NoOptions
    /\ mgr = NewManager(pol)
    /\ InitFiles(m, k, e)

\* ------------------------------------------------- LockedWriter alone
InitLock ==
    InitWriter("lock", 0, "time",
        [np |-> NProducers, nw |-> MaxWrites, nr |-> MaxRot, nf |-> MaxFaults, lens |-> 1..MaxLen, dir |-> {}])

NextLock ==
    \/ Trigger
    \/ \E t \in bg : BgClose(t)
    \/ \E p \in Producers : Lock(p)
    \/ \E p \in Producers : Poll(p)
    \/ \E p \in Producers : LockedWrite(p)
    \/ CloseLock
    \/ FileClose

SpecLock == InitLock /\ [][NextLock]_vars

\* ------------------------------------------- AsynchronousWriter alone
InitAsync ==
    InitWriter("async", 0, "time",
        [np |-> NProducers, nw |-> MaxWrites, nr |-> AsyncRot, nf |-> MaxFaults, lens |-> 1..MaxLen, dir |-> {}])

NextAsync ==
    \/ Trigger
    \/ \E t \in bg : BgClose(t)
    \/ \E p \in Producers : AsyncCheckClosed(p)
    \/ \E p \in Producers : AsyncRecvErr(p)
    \/ \E p \in Producers : AsyncRecvFire(p)
    \/ \E p \in Producers : AsyncEnqueueChunk(p)
    \/ \E p \in Producers : AsyncEnqueueDefault(p)
    \/ ConsumerRecv
    \/ ConsumerStop
    \/ ConsumerWrite
    \/ CloseCas
    \/ CloseDrain
    \/ FileClose

SpecAsync == InitAsync /\ [][NextAsync]_vars

\* --------------- AsynchronousWriter, payloads from empty to longer than a
\* pooled slice
InitSplit ==
    InitWriter("async", 0, "time",
        [np |-> NProducers, nw |-> SplitWrites, nr |-> SplitRot, nf |-> 0,
         lens |-> 0..SplitLen, dir |-> {}])

\* No I/O failure and no Close: the steps of Write, the consumer and the
\* rotation.
NextSplit ==
    \/ Trigger
    \/ \E t \in bg : BgClose(t)
    \/ \E p \in Producers : AsyncCheckClosed(p)
    \/ \E p \in Producers : AsyncRecvFire(p)
    \/ \E p \in Producers : AsyncEnqueueChunk(p)
    \/ \E p \in Producers : AsyncEnqueueDefault(p)
    \/ ConsumerRecv
    \/ ConsumerWrite

SpecSplit == InitSplit /\ [][NextSplit]_vars

\* ------------------------------------------------- BufferWriter alone
InitBuffer ==
    InitWriter("buffer", 0, "time",
        [np |-> NProducers, nw |-> BufferWrites, nr |-> BufferRot, nf |-> BufferFaults, lens |-> 1..MaxLen, dir |-> {}])

NextBuffer ==
    \/ Trigger
    \/ \E t \in bg : BgClose(t)
    \/ \E p \in Producers : Poll(p)
    \/ \E p \in Producers : BufAppend(p)
    \/ \E p \in Producers : BufStore(p)
    \/ \E p \in Producers : BufLen(p)
    \/ \E p \in Producers : BufCas(p)
    \/ \E p \in Producers : BufSwap(p)
    \/ \E p \in Producers : BufLoadFile(p)
    \/ \E p \in Producers : BufFlush(p)
    \/ \E p \in Producers : BufReset(p)
    \/ CloseCopy
    \/ CloseFlush
    \/ FileClose

SpecBuffer == InitBuffer /\ [][NextBuffer]_vars

\* ------------------------------- BufferWriter with a single producer
InitBufferOne ==
    InitWriter("buffer", 0, "time",
        [np |-> 1, nw |-> OneWrites, nr |-> OneRot, nf |-> 0,
         lens |-> 1..OneLen, dir |-> {}])

SpecBufferOne == InitBufferOne /\ [][NextBuffer]_vars

\* ------------------------------------------------- Writer alone
InitNone ==
    InitWriter("none", 0, "time",
        [np |-> NProducers, nw |-> MaxWrites, nr |-> MaxRot, nf |-> MaxFaults, lens |-> 1..MaxLen, dir |-> {}])

NextNone ==
    \/ Trigger
    \/ \E t \in bg : BgClose(t)
    \/ \E p \in Producers : Poll(p)
    \/ \E p \in Producers : NoneLoad(p)
    \/ \E p \in Producers : NoneWrite(p)
    \/ CloseNone

SpecNone == InitNone /\ [][NextNone]_vars

\* ----------------------- retention: one producer, MaxRemain > 0, old files
\* Historical files found at construction are older than any generated name.
InitRetention ==
    \E k \in 1..MaxRemain : \E d \in 0..MaxDir :
        InitWriter("none", k, "time",
            [np |-> 1, nw |-> RetWrites, nr |-> RetRot, nf |-> 0, lens |-> 1..MaxLen, dir |-> (1 - d)..0])

NextRetention ==
    \/ Trigger
    \/ \E p \in Producers : Poll(p)
    \/ \E p \in Producers : NoneLoad(p)
    \/ \E p \in Producers : NoneWrite(p)
    \/ \E t \in bg : BgEnqueue(t)
    \/ \E t \in bg : BgRemove(t)
    \/ \E t \in bg : BgClose(t)

SpecRetention == InitRetention /\ [][NextRetention]_vars

\* A post-rotation goroutine that can take a step is scheduled; the callers
\* of Write and the trigger may stop at any time.
BgStep == \E t \in bg : BgEnqueue(t) \/ BgRemove(t) \/ BgClose(t)

SpecRetentionFair == SpecRetention /\ WF_vars(BgStep)

\* --------------------------- the manager, with one producer of a Writer
InitManager ==
    \E pol \in {"time", "volume"} :
        InitWriter("none", 0, pol,
            [np |-> 1, nw |-> MgrWrites, nr |-> MgrRot, nf |-> 0, lens |-> 1..MaxLen, dir |-> {}])

NextManager ==
    \/ Running /\ Trigger
    \/ Running /\ PollerTick
    \/ Running /\ PollerStop
    \/ Running /\ ManagerClose
    \/ Running /\ ManagerStopCron
    \/ Running /\ \E p \in Producers : Poll(p)
    \/ Running /\ \E p \in Producers : NoneLoad(p)
    \/ Running /\ \E p \in Producers : NoneWrite(p)
    \/ Running /\ \E t \in bg : BgClose(t)

SpecManager == InitManager /\ [][NextManager]_vars

\* ----------------------------------- NewManager parsing RollingVolumeSize
SizeChars == {"1", "2", "3", "k", "K", "M", "G", "T", "B", "b", "x"}

\* The strings over SizeChars of at most MaxSizeLen characters, and some words.
SizeStrings ==
    UNION {[1..n -> SizeChars] : n \in 0..MaxSizeLen}
      \cup {<<"w", "e", "i", "r", "d">>, <<"t", "e", "x", "t">>,
            <<"1", "0", "0", "m", "b">>, <<"-", "1", "K">>}

\* NewManager has built the manager struct and is at case VolumeRolling.
InitParse ==
    \E size \in SizeStrings :
        /\ cf = [NewDefaultConfig EXCEPT !.RollingPolicy = VolumeRolling,
                                         !.RollingVolumeSize = size]
        /\ ops = NoOptions
        /\ mgr = [NewManager("volume") EXCEPT !.poller = "new", !.thresholdSize = Size(0, 0)]
        /\ InitFiles("lock", 0, [np |-> 0, nw |-> 0, nr |-> 0, nf |-> 0, lens |-> 1..MaxLen, dir |-> {}])

NextParse == ParseVolumeStep

SpecParse == InitParse /\ [][NextParse]_vars

\* ------------------------------------------- NewWriter applying options
Size100mb == <<"1", "0", "0", "m", "b">>

\* The options enumerated: every constructor, with one or two arguments.
Options ==
    {Opt("WithTimeTagFormat", "200601021504"), Opt("WithLogPath", "./"),
     Opt("WithFileName", "foo"), Opt("WithAsynchronous", 0), Opt("WithLock", 0),
     Opt("WithBuffer", 0), Opt("WithBufferThreshold", 8), Opt("WithCompress", 0),
     Opt("WithMaxRemain", 3), Opt("WithMaxRemain", 5), Opt("WithoutRollingPolicy", 0),
     Opt("WithRollingTimePattern", "0 0 * * *"), Opt("WithRollingTimePattern", "@hourly"),
     Opt("WithRollingVolumeSize", Size100mb), Opt("WithRollingVolumeSize", DefaultVolumeSize)}

\* The option list of TestOptions.
TestOptions ==
    <<Opt("WithTimeTagFormat", "200601021504"), Opt("WithLogPath", "./"),
      Opt("WithFileName", "foo"), Opt("WithAsynchronous", 0), Opt("WithBuffer", 0),
      Opt("WithBufferThreshold", 8), Opt("WithCompress", 0), Opt("WithLock", 0),
      Opt("WithMaxRemain", 3), Opt("WithRollingVolumeSize", Size100mb),
      Opt("WithRollingTimePattern", "0 0 * * *")>>

OptionLists == UNION {[1..n -> Options] : n \in 0..MaxOps} \cup {TestOptions}

\* NewWriter(ops...): cfg := NewDefaultConfig(), before the loop.
InitOptions ==
    \E l \in OptionLists :
        /\ cf = NewDefaultConfig
        /\ ops = [list |-> l, i |-> 1]
        /\ mgr = NewManager("none")
        /\ InitFiles("lock", 0, [np |-> 0, nw |-> 0, nr |-> 0, nf |-> 0, lens |-> 1..MaxLen, dir |-> {}])

NextOptions == ApplyNext

SpecOptions == InitOptions /\ [][NextOptions]_vars

\* ------------------------------------------------- the four variants
Modes == {"none", "lock", "async", "buffer"}

Init ==
    \E m \in Modes :
        InitWriter(m, 0, "time",
            [np |-> NProducers, nw |-> AllWrites, nr |-> AllRot, nf |-> MaxFaults, lens |-> 1..MaxLen, dir |-> {}])

Next ==
    \/ Trigger
    \/ \E t \in bg : BgClose(t)
    \/ \E p \in Producers : Poll(p)
    \/ \E p \in Producers : NoneLoad(p)
    \/ \E p \in Producers : NoneWrite(p)
    \/ \E p \in Producers : Lock(p)
    \/ \E p \in Producers : LockedWrite(p)
    \/ \E p \in Producers : AsyncCheckClosed(p)
    \/ \E p \in Producers : AsyncRecvErr(p)
    \/ \E p \in Producers : AsyncRecvFire(p)
    \/ \E p \in Producers : AsyncEnqueueChunk(p)
    \/ \E p \in Producers : AsyncEnqueueDefault(p)
    \/ ConsumerRecv
    \/ ConsumerStop
    \/ ConsumerWrite
    \/ \E p \in Producers : BufAppend(p)
    \/ \E p \in Producers : BufStore(p)
    \/ \E p \in Producers : BufLen(p)
    \/ \E p \in Producers : BufCas(p)
    \/ \E p \in Producers : BufSwap(p)
    \/ \E p \in Producers : BufLoadFile(p)
    \/ \E p \in Producers : BufFlush(p)
    \/ \E p \in Producers : BufReset(p)
    \/ CloseNone
    \/ CloseLock
    \/ CloseCas
    \/ CloseDrain
    \/ CloseCopy
    \/ CloseFlush
    \/ FileClose

Spec == Init /\ [][Next]_vars

\* ------------------------------------------------------------------ C1
\* The position of call c in the order of lock acquisitions.
LockIndex(c) == CHOOSE i \in 1..Len(lockOrder) : lockOrder[i] = c
CallOf(x) == <<ByteProd(x), ByteCall(x)>>

\* Call <<p, n>> has its whole payload once, contiguously, in exactly one file.
InOneFile(p, n) ==
    \E h \in Handles :
        /\ HoldsPayload(content[h], p, n, calls[p][n].len)
        /\ \A g \in Handles \ {h} : Positions(content[g], p, n) = {}

\* C1: LockedWriter, concurrent producers and pending rotations: the bytes of
\* every Write that returned success are in exactly one file, once and
\* contiguously, and within one file the payloads are in the order in which
\* their calls acquired the mutex.
C1_LockedWritesAtomicInOrder ==
    /\ \A p \in Producers : \A n \in 1..Len(calls[p]) :
           calls[p][n].out = "ok" => InOneFile(p, n)
    /\ \A h \in Handles : \A i, j \in 1..Len(content[h]) :
           i < j => LockIndex(CallOf(content[h][i])) <= LockIndex(CallOf(content[h][j]))

\* Both producers wrote with success into the file opened by a rotation, which
\* also holds a payload of an earlier segment's producer.
C1_Witness ==
    /\ mode = "lock"
    /\ Len(content) >= 2
    /\ content[1] # <<>>
    /\ \E i, j \in 1..Len(content[2]) : ByteProd(content[2][i]) # ByteProd(content[2][j])
    /\ \A p \in Producers : pr[p].pc = "idle" /\ Len(calls[p]) = env.nw
    /\ \A p \in Producers : \A n \in 1..Len(calls[p]) : calls[p][n].out = "ok"

\* ------------------------------------------------------------------ C2
AllCalls == {<<p, n>> : p \in Producers, n \in 1..env.nw}
Made == {c \in AllCalls : c[2] <= Len(calls[c[1]])}
CallRec(c) == calls[c[1]][c[2]]

\* The places <<h, i>> of byte x in the files.
Places(x) == UNION {{<<h, i>> : i \in {k \in 1..Len(content[h]) : content[h][k] = x}} :
                       h \in Handles}

EnqIndex(x) == CHOOSE k \in 1..Len(enqd) : enqd[k] = x

\* Every Write returned before Close was called, and none was made since.
CloseAfterWrites == \A c \in Made : ~CallRec(c).late

\* C2: AsynchronousWriter, no file write failed: once Close has returned, the
\* files hold every byte enqueued by the Writes that returned before Close
\* was called, each once, and within a file in the order of enqueueing.
CX_C2_CloseDrainsAllInOrder ==
    (mode = "async" /\ closer.pc = "done" /\ ~wfail /\ CloseAfterWrites) =>
        /\ \A k \in 1..Len(enqd) : Cardinality(Places(enqd[k])) = 1
        /\ \A h \in Handles : \A i, j \in 1..Len(content[h]) :
               i < j => EnqIndex(content[h][i]) < EnqIndex(content[h][j])

\* ------------------------------------------------------------------ C7
\* Nothing will write to a file any more.
AsyncQuiet ==
    /\ closer.pc = "done"
    /\ cons.pc = "exit"
    /\ \A p \in Producers : pr[p].pc = "idle"

\* C7: AsynchronousWriter: a Write entered after Close fails with ErrClosed
\* and enqueues nothing, and no Write that overlaps or follows Close returns
\* success while its bytes never reach a file.
CX_C7_NoLateSuccessLost ==
    mode = "async" =>
        \A c \in Made :
            /\ CallRec(c).afterClose => CallRec(c).out = "closedErr"
            /\ (AsyncQuiet /\ ~wfail /\ CallRec(c).late /\ CallRec(c).out = "ok")
                  => InOneFile(c[1], c[2])

\* ------------------------------------------------------------------ C8
\* C8: AsynchronousWriter: a Write that runs its select while the consumer
\* offers a write failure on errChan receives that error: it returns
\* (0, error) and enqueues nothing.
CX_C8_ErrorToNextWrite ==
    mode = "async" => \A c \in Made : CallRec(c).offered => CallRec(c).out = "relayErr"

\* ------------------------------------------------------------------ C4
\* C4: no file write is issued on a handle that a rotation has retired (closed
\* or about to be closed by the post-rotation goroutine).
CX_C4_NoWriteOnRetiredHandle == ~stale

\* ------------------------------------------------------------------ C5
\* The handles whose file holds a byte of call c.
FilesOf(c) == {h \in Handles : Positions(content[h], c[1], c[2]) # {}}

\* C5: the bytes of a Write never land in a file older than the one that was
\* active when its poll of w.fire was over: a Write that received a filename
\* writes into the file its Reopen opened (or a later one), never into the
\* file it retired, and so does every later Write.  Stated for the time
\* before Close is called.
CX_C5_BytesLandInFileOfPoll ==
    closer.pc = "idle" => \A c \in Made : \A h \in FilesOf(c) : h >= CallRec(c).gen

\* ------------------------------------------------------------------ C3
\* The output: the files one after the other, oldest first.
Output == Flatten(content)

\* C3: BufferWriter, concurrent producers, no file write failed: after all
\* Writes have returned and Close has completed, the output holds every byte
\* of every successful Write exactly once, and the bytes of one producer in
\* the order it submitted them.
CX_C3_BufferedBytesOnceInOrder ==
    (mode = "buffer" /\ closer.pc = "done" /\ ~wfail /\ CloseAfterWrites) =>
        /\ \A c \in Made : CallRec(c).out = "ok" =>
               \A j \in 1..CallRec(c).len :
                   Cardinality({i \in 1..Len(Output) : Output[i] = Byte(c[1], c[2], j)}) = 1
        /\ \A i, j \in 1..Len(Output) :
               (i < j /\ ByteProd(Output[i]) = ByteProd(Output[j])) => Output[i] < Output[j]

\* ------------------------------------------------------------------ C6
\* The bytes of call c that are in a file, were enqueued, or are in a
\* backing array of the shared buffer.
Stored(c) ==
    {x \in {Byte(c[1], c[2], j) : j \in 1..CallRec(c).len} :
        \/ \E h \in Handles : \E i \in 1..Len(content[h]) : content[h][i] = x
        \/ \E i \in 1..Len(enqd) : enqd[i] = x
        \/ \E a \in 1..Len(arrays) : \E i \in 1..Len(arrays[a]) : arrays[a][i] = x}

\* C6: in all four variants, a Write whose Reopen failed (rename or open) has
\* returned (0, error), and none of its bytes is in a file, was enqueued, or
\* was appended to the shared buffer.
C6_FailedReopenWritesNothing ==
    \A c \in Made :
        CallRec(c).rotFail =>
            /\ CallRec(c).out = "rotErr"
            /\ c[2] = Len(calls[c[1]]) => pr[c[1]].pc = "idle"
            /\ Stored(c) = {}

\* A Write whose Reopen failed has returned, and a Write of the other producer
\* has stored its bytes.
C6_Witness ==
    \E c, d \in Made :
        /\ CallRec(c).rotFail
        /\ pr[c[1]].pc = "idle"
        /\ d[1] # c[1]
        /\ Stored(d) # {}

\* ------------------------------------------------------------------ C9
\* The n most recent of the names S.
MostRecent(S, n) == {x \in S : Cardinality({y \in S : y > x}) < n}

\* The names of the rotations done: every name received from m.fire (no
\* rename or open fails under SpecRetention).
RotatedNames == (1..gen) \ firePend

\* C9: with MaxRemain = k > 0, whenever no post-rotation goroutine runs, the
\* historical files on disk are the min(k, total) most recent of the files
\* found at construction and the files rotated since.
CX_C9_MostRecentRemain ==
    (maxRemain > 0 /\ bg = {}) => hist = MostRecent(env.dir \cup RotatedNames, maxRemain)

\* ------------------------------------------------------------------ C10
\* C10: manager.Close is idempotent: a second call never panics.
CX_C10_ManagerCloseIdempotent == ~mgr.panic

\* ------------------------------------------------------------------ C11
\* C11: under both policies at most one generated filename is pending on
\* m.fire (generated, not yet received by a Write).  Every call of
\* GenLogFileName also resets m.startAt, so a second name generated while one
\* is pending is a second reset as well.
CX_C11_AtMostOnePending == Cardinality(firePend) <= 1

\* ------------------------------------------------------------------ C12
\* The files whose size exceeds the threshold.
LargeFiles == {h \in Handles : Len(content[h]) > ThresholdSize}

Units == {<<"K">>, <<"K", "B">>, <<"M">>, <<"M", "B">>,
          <<"G">>, <<"G", "B">>, <<"T">>, <<"T", "B">>}

\* s is <n><unit>: digits, then the unit.
HasShape(s, unit) ==
    /\ Len(s) > Len(unit)
    /\ SubSeq(s, Len(s) - Len(unit) + 1, Len(s)) = unit
    /\ \A i \in 1..(Len(s) - Len(unit)) : IsDigit(s[i])

\* The size C13 gives for a size string: n * 1024^(1..4) for <n><unit> in any
\* letter case, the 1 GiB default for every other string.
ExpectedSize(size) ==
    LET s == ToUpper(size)
    IN IF \E unit \in Units : HasShape(s, unit)
         THEN LET unit == CHOOSE u \in Units : HasShape(s, u)
              IN Size(Decimal(SubSeq(s, 1, Len(s) - Len(unit))), UnitExp(unit))
         ELSE Size(1, 3)

\* C13: ParseVolume maps <n><unit>, unit in {K, KB, M, MB, G, GB, T, TB} in
\* any letter case, to n * 1024^(1..4), and every other string to 1 GiB.
CX_C13_ParseVolume ==
    mgr.poller = "wait" => mgr.thresholdSize = ExpectedSize(cf.RollingVolumeSize)

\* ------------------------------------------------------------------ C14
\* The constructors whose option touches field f.
Touching(f) ==
    CASE f = "TimeTagFormat" -> {"WithTimeTagFormat"}
      [] f = "LogPath" -> {"WithLogPath"}
      [] f = "FileName" -> {"WithFileName"}
      [] f = "MaxRemain" -> {"WithMaxRemain"}
      [] f = "RollingPolicy" ->
             {"WithRollingVolumeSize", "WithRollingTimePattern", "WithoutRollingPolicy"}
      [] f = "RollingTimePattern" -> {"WithRollingTimePattern"}
      [] f = "RollingVolumeSize" -> {"WithRollingVolumeSize"}
      [] f = "WriterMode" -> {"WithAsynchronous", "WithBuffer", "WithLock"}
      [] f = "BufferWriterThreshold" -> {"WithBufferThreshold"}
      [] f = "Compress" -> {"WithCompress"}

\* The value option o gives to a field f it touches.
ValueGiven(o, f) ==
    CASE f = "WriterMode" ->
             (CASE o.name = "WithAsynchronous" -> "async"
                [] o.name = "WithBuffer" -> "buffer"
                [] o.name = "WithLock" -> "lock")
      [] f = "RollingPolicy" ->
             (CASE o.name = "WithRollingVolumeSize" -> VolumeRolling
                [] o.name = "WithRollingTimePattern" -> TimeRolling
                [] o.name = "WithoutRollingPolicy" -> WithoutRolling)
      [] f = "Compress" -> TRUE
      [] OTHER -> o.arg

\* The positions in the option list of the options touching f.
TouchedAt(f) == {k \in 1..Len(ops.list) : ops.list[k].name \in Touching(f)}

\* C14: once all options are applied, each field of the Config holds the value
\* given by the last option that touches it, and its default when none does.
C14_LastOptionWins ==
    ops.i > Len(ops.list) =>
        \A f \in DOMAIN NewDefaultConfig :
            cf[f] = IF TouchedAt(f) = {} THEN NewDefaultConfig[f]
                    ELSE ValueGiven(ops.list[CHOOSE k \in TouchedAt(f) :
                                                 \A j \in TouchedAt(f) : j <= k], f)

\* The options of TestOptions are applied and the Config is the one it expects.
C14_Witness ==
    /\ ops = [list |-> TestOptions, i |-> Len(TestOptions) + 1]
    /\ cf = [LogPath |-> "./", TimeTagFormat |-> "200601021504", FileName |-> "foo",
             MaxRemain |-> 3, RollingPolicy |-> TimeRolling,
             RollingTimePattern |-> "0 0 * * *", RollingVolumeSize |-> Size100mb,
             WriterMode |-> "lock", BufferWriterThreshold |-> 8, Compress |-> TRUE]

\* ------------------------------------------------------------------ C15
\* C15: VolumeRolling: once manager.Close has closed m.context, the poller
\* generates no further filename (it is to terminate, whatever it was doing).
CX_C15_NoFilenameAfterClose ==
    [][(mgr.policy = "volume" /\ mgr.context = "closed") => gen' = gen]_vars

\* ------------------------------------------------------------------ C16
\* The scheduler keeps running some goroutine that can take a step.
SpecFair == Spec /\ WF_vars(Next)

\* C16: after Close of the sink has returned, the rotation trigger is
\* eventually stopped and the background consumer of the asynchronous sink
\* has eventually exited.
CX_C16_BackgroundStopsAfterClose ==
    (closer.pc = "done") ~>
        (/\ mgr.cr # "running"
         /\ mgr.poller \notin {"wait", "send"}
         /\ mode = "async" => cons.pc = "exit")

\* ------------------------------------------------------------------ C17
\* The producers between winning the compare-and-swap and resetting the flag.
InFlight == {p \in Producers : pr[p].pc \in {"bswap", "bload", "bwrite", "breset"}}

\* The single-flight part: at most one flush in flight, and the flag is 1
\* exactly while its winner is in flight.
SingleFlight ==
    /\ Cardinality(InFlight) <= 1
    /\ swaping = 1 <=> InFlight # {}

\* C17: BufferWriter: at most one flush is in flight, the flag is set exactly
\* while the winner of the compare-and-swap is flushing, and a buffer that was
\* swapped out is written to the file exactly once.
CX_C17_SingleFlightFlush ==
    /\ SingleFlight
    /\ \A i, j \in 1..Len(flushed) : flushed[i][1] = flushed[j][1] => i = j
    /\ \A p \in Producers : pr[p].pc \in {"bload", "bwrite"} =>
          \A i \in 1..Len(flushed) : flushed[i][1] # pr[p].lb[1]

\* ------------------------------------------------------------------ C18
\* C18: AsynchronousWriter, rotation path: every turn of the chunking loop
\* enqueues a non-empty chunk and so shortens what is left of the payload
\* (hence the Write returns after finitely many chunks), for every payload
\* length and every pool state earlier Writes leave behind.
CX_C18_ChunkingTerminates ==
    [][\A p \in Producers :
          AsyncEnqueueChunk(p) =>
              /\ queue'[Len(queue')] # <<>>
              /\ Len(pr'[p].rest) < Len(pr[p].rest)]_vars

\* ------------------------------------------------------------------ C19
\* C19: AsynchronousWriter under concurrent producers: in every file the bytes
\* of a Write call are contiguous: no byte of another call lies between two
\* of them, also when the payload went to the queue in several chunks.
CX_C19_AsyncWritesContiguous ==
    \A h \in Handles : \A i, k \in 1..Len(content[h]) :
        (i < k /\ CallOf(content[h][i]) = CallOf(content[h][k])) =>
            \A j \in i..k : CallOf(content[h][j]) = CallOf(content[h][i])

\* ------------------------------------------------------------------ C20
\* The post-rotation goroutine for the historical file n has not yet put its
\* name into w.rollingfilech.
Trying(n) == \E t \in bg : t.name = n /\ t.pc \in {"enq", "rm"}

\* C20: with MaxRemain = k > 0 the retention queue never holds more than k
\* names, and every post-rotation goroutine that tries to enqueue its
\* historical filename eventually has enqueued it, however many of them run
\* at once.
C20_RetentionEnqueueSucceeds ==
    /\ [](maxRemain > 0 /\ Len(rollingfilech) <= maxRemain)
    /\ \A n \in 1..RetRot : Trying(n) ~> ~Trying(n)

\* More goroutines than the queue has places found it full, and one of them
\* is blocked in DoRemove on the queue the others have emptied.
C20_Witness ==
    /\ rollingfilech = <<>>
    /\ \E t \in bg : t.pc = "rm"
    /\ Cardinality({t \in bg : t.pc \in {"enq", "rm"}}) > maxRemain

\* ------------------------------------------------------------------ C21
\* The payloads of the Write calls of producer p that returned success, in
\* the order of the calls.
Accepted(p) ==
    Flatten([n \in 1..Len(calls[p]) |->
                IF calls[p][n].out = "ok" THEN Payload(p, n, calls[p][n].len) ELSE <<>>])

\* C21: BufferWriter with a single producer, between calls: before Close the
\* bytes of the files followed by the bytes of the shared buffer are the
\* accepted payloads in order; the buffer holds at most BufferWriterThreshold
\* bytes; after Close the files hold exactly the accepted payloads.
CX_C21_BufferedSingleProducer ==
    pr[1].pc = "idle" =>
        /\ bufp[2] <= BufferWriterThreshold
        /\ closer.pc = "idle" => Output \o SliceData(bufp) = Accepted(1)
        /\ closer.pc = "done" => Output = Accepted(1)

====
